---- MODULE Spec2Model ----
(***************************************************************************)
(* A model of JapaneseStudyApp (src/unnamed/part_000): the annotator       *)
(* makeWordsClickable as a pure function over sequences of characters, and *)
(* the word popup / definition cache as a state machine of event handlers  *)
(* and suspended async calls.                                              *)
(*                                                                         *)
(* Characters are UTF-16 code units (integers), so the character class of  *)
(* the tokenizer is computed from the ranges the regular expression names. *)
(* The literal pieces of the markup template that hold no '<', no '>', no  *)
(* newline and no character of the class are single negative tokens: no    *)
(* regular expression of the program can tell them from any other run of   *)
(* such characters.                                                        *)
(***************************************************************************)
EXTENDS Integers, Sequences, FiniteSets, TLC

VARIABLES
  \* ---- annotator run (makeWordsClickable applied to a text) ----
  text,                 \* the argument of makeWordsClickable
  wordsToMakeClickable, \* the Set built by the tokenizer loop, in insertion order
  clickableText,        \* the markup makeWordsClickable returned for text
  reText,               \* the markup makeWordsClickable returned for clickableText
  tpc,                  \* "input" | "annotated" | "reannotated" ("idle": no run)
  \* ---- input fields and persisted settings ----
  localStorage,         \* [openai_api_key, story_prompt]
  apiKeyInput,          \* apiKeyInput.value
  promptInput,          \* promptInput.value
  \* ---- story display ----
  generateBtnDisabled,  \* generateBtn.disabled
  loadingHidden,        \* loadingDiv has class "hidden"
  storySectionHidden,   \* storySection has class "hidden"
  toggleBtnHidden,      \* toggleBtn has class "hidden"
  japaneseStoryHTML,    \* japaneseStory.innerHTML
  englishStoryHTML,     \* englishStory.innerHTML
  japaneseStoryHidden,  \* japaneseStory has class "hidden"
  englishStoryHidden,   \* englishStory has class "hidden"
  currentLanguage,      \* "japanese" | "english"
  clickListeners,       \* click listeners on each clickable word element
  generating,           \* generateStory calls suspended at fetch / at json()
  \* ---- word popup and definition cache ----
  fallbackDefinitions,  \* the Map word -> parsed content
  currentWord,          \* this.currentWord (NoWord: never assigned)
  wordPopupHidden,      \* wordPopup has class "hidden"
  popupWord,            \* popupWord.textContent
  popupMeaning,         \* popupMeaning.innerHTML
  popupAt,              \* the word whose event the popup was last positioned for
  calls,                \* showWordPopup calls that issued a lookup request
  lastAlert,            \* the message the last step alerted ("": none)
  clipboardWrite,       \* the text the last step handed to the clipboard
  shownBefore,          \* history: the story display before the pending attempt
  \* ---- a positionPopup run ----
  event,                \* the pointer event: [type, x, y], client or page coordinates
  window,               \* [scrollX, scrollY, innerWidth, innerHeight]
  captured,             \* what the frame callback closes over
  popupRect,            \* popup.getBoundingClientRect(): [width, height]
  popupStyle,           \* popup.style: [left, top], in half pixels
  ppc                   \* "event" | "frame" | "placed" ("idle": no run)

textVars == <<text, wordsToMakeClickable, clickableText, reText, tpc>>
placeVars == <<event, window, captured, popupRect, popupStyle, ppc>>

(***************************************************************************)
(* Characters                                                              *)
(***************************************************************************)
LT == 60      \* '<'
GT == 62      \* '>'
NL == 10      \* '\n'

\* `span class="clickable-word" data-word="`  (after the '<' of the open tag)
SpanOpenAttrs == -1
\* `" data-source="dynamic"`                  (before the '>' of the open tag)
SpanSourceAttr == -2
\* `/span`                                    (between '<' and '>' of the close tag)
SpanCloseName == -3
\* `br`                                       (between '<' and '>' of the line break)
BrName == -4

\* /[U+4E00-U+9FAF U+3072-U+3096 U+30F0-U+30F7 U+30A1-U+30FA U+30FC]/
InScript(c) ==
  \/ (19968 <= c /\ c <= 40879)
  \/ (12402 <= c /\ c <= 12438)
  \/ (12528 <= c /\ c <= 12535)
  \/ (12449 <= c /\ c <= 12538)
  \/ c = 12540

\* const particles = [...]: the 29 entries, in source order
particles ==
  << <<12399>>, <<12364>>, <<12434>>, <<12395>>, <<12391>>, <<12392>>,
     <<12418>>, <<12398>>, <<12363, 12425>>, <<12414, 12391>>,
     <<12424, 12426>>, <<12408>>,
     <<12420>>, <<12363>>, <<12424>>, <<12397>>, <<12431>>, <<12373>>,
     <<12382>>, <<12380>>, <<12394>>, <<12384>>, <<12391, 12354, 12427>>,
     <<12391, 12377>>, <<12414, 12377>>, <<12384, 12387>>,
     <<12391, 12354, 12387>>, <<12392, 12356, 12358>>,
     <<12392, 12356, 12387, 12383>> >>

\* particles.includes(word)
Includes(arr, word) == \E i \in 1..Len(arr) : arr[i] = word

(***************************************************************************)
(* Tokenizer: the exec loop of meaningfulWordRegex over text               *)
(***************************************************************************)
\* index of the first character of the class at or after i, 0 when none
RECURSIVE MatchStart(_, _)
MatchStart(s, i) ==
  IF i > Len(s) THEN 0
  ELSE IF InScript(s[i]) THEN i
  ELSE MatchStart(s, i + 1)

\* {1,} is greedy: the match that starts at i ends at the last character of the run
RECURSIVE MatchEnd(_, _)
MatchEnd(s, i) ==
  IF i < Len(s) /\ InScript(s[i + 1]) THEN MatchEnd(s, i + 1) ELSE i

\* wordsToMakeClickable.add(word): a Set keeps insertion order and no duplicate
SetAdd(set, word) == IF Includes(set, word) THEN set ELSE Append(set, word)

\* a variant of the particle test that looks for a particle anywhere in the run
IsParticleSubstring(word) ==
  \E i \in 1..Len(word) : \E j \in i..Len(word) :
    Includes(particles, SubSeq(word, i, j))

\* the test !particles.includes(word) of the loop body, negated
IsParticle(word) == Includes(particles, word)

\* while ((match = meaningfulWordRegex.exec(text)) !== null) { ... }
RECURSIVE ExecLoop(_, _, _)
ExecLoop(s, lastIndex, set) ==
  LET b == MatchStart(s, lastIndex) IN
  IF b = 0 THEN set
  ELSE LET e    == MatchEnd(s, b)
           word == SubSeq(s, b, e)
       IN ExecLoop(s, e + 1,
                   IF ~IsParticle(word) /\ Len(word) >= 1
                   THEN SetAdd(set, word) ELSE set)

ExtractWords(s) == ExecLoop(s, 1, <<>>)

(***************************************************************************)
(* Annotator                                                               *)
(***************************************************************************)
RECURSIVE MaxLen(_)
MaxLen(seq) ==
  IF seq = <<>> THEN 0
  ELSE LET m == MaxLen(Tail(seq)) IN
       IF Len(Head(seq)) > m THEN Len(Head(seq)) ELSE m

\* the words of seq of length at most n, longest first, ties in seq's order
RECURSIVE ByLengthFrom(_, _)
ByLengthFrom(seq, n) ==
  IF n = 0 THEN <<>>
  ELSE SelectSeq(seq, LAMBDA w : Len(w) = n) \o ByLengthFrom(seq, n - 1)

\* Array.from(set).sort((a, b) => b.length - a.length): a stable sort
SortedWords(set) == ByLengthFrom(set, MaxLen(set))

\* the replacement string of the replace call
SpanTag(word) ==
  <<LT, SpanOpenAttrs>> \o word \o <<SpanSourceAttr, GT>> \o word
    \o <<LT, SpanCloseName, GT>>

\* (?!<[^>]*>) fails at i: a '<' at i with a '>' somewhere after it
AtTag(s, i) ==
  /\ i <= Len(s)
  /\ s[i] = LT
  /\ \E j \in (i + 1)..Len(s) : s[j] = GT

\* (?![^<]*>) fails at k: a '>' at or after k with no '<' before it
BeforeTagEnd(s, k) ==
  \E j \in k..Len(s) :
    /\ s[j] = GT
    /\ \A m \in k..(j - 1) : s[m] # LT

\* the regular expression built for word matches at i
MatchesAt(s, i, word) ==
  /\ ~AtTag(s, i)
  /\ i + Len(word) - 1 <= Len(s)
  /\ SubSeq(s, i, i + Len(word) - 1) = word
  /\ ~BeforeTagEnd(s, i + Len(word))

\* clickableText.replace(regex, `<span ...>${word}</span>`), flag g
RECURSIVE ReplaceWord(_, _, _)
ReplaceWord(s, i, word) ==
  IF i > Len(s) THEN <<>>
  ELSE IF MatchesAt(s, i, word)
       THEN SpanTag(word) \o ReplaceWord(s, i + Len(word), word)
       ELSE <<s[i]>> \o ReplaceWord(s, i + 1, word)

\* sortedWords.forEach(word => { clickableText = clickableText.replace(...) })
RECURSIVE ForEachWord(_, _)
ForEachWord(s, words) ==
  IF words = <<>> THEN s
  ELSE ForEachWord(ReplaceWord(s, 1, Head(words)), Tail(words))

\* clickableText.replace(/\n/g, "<br>")
RECURSIVE ReplaceNewlines(_)
ReplaceNewlines(s) ==
  IF s = <<>> THEN <<>>
  ELSE (IF Head(s) = NL THEN <<LT, BrName, GT>> ELSE <<Head(s)>>)
       \o ReplaceNewlines(Tail(s))

makeWordsClickable(s) ==
  ReplaceNewlines(ForEachWord(s, SortedWords(ExtractWords(s))))

(***************************************************************************)
(* Reading markup back: the interactive spans of a markup string           *)
(***************************************************************************)
IsSpanOpen(s, i) == i < Len(s) /\ s[i] = LT /\ s[i + 1] = SpanOpenAttrs
IsSpanClose(s, i) == i < Len(s) /\ s[i] = LT /\ s[i + 1] = SpanCloseName

\* number of interactive open tags
SpanCount(s) == Cardinality({i \in 1..Len(s) : IsSpanOpen(s, i)})

\* how many interactive spans are open at position i (i itself counted)
Depth(s, i) ==
  Cardinality({j \in 1..i : IsSpanOpen(s, j)})
    - Cardinality({j \in 1..i : IsSpanClose(s, j)})

\* the data-word attribute of the open tag at i
RECURSIVE AttrEnd(_, _)
AttrEnd(s, i) ==
  IF i > Len(s) \/ s[i] = SpanSourceAttr THEN i - 1 ELSE AttrEnd(s, i + 1)

DataWord(s, i) == SubSeq(s, i + 2, AttrEnd(s, i + 2))

\* the data-word attributes of the interactive open tags, left to right
RECURSIVE SpanWordsFrom(_, _)
SpanWordsFrom(s, i) ==
  IF i > Len(s) THEN <<>>
  ELSE IF IsSpanOpen(s, i) THEN <<DataWord(s, i)>> \o SpanWordsFrom(s, i + 1)
  ELSE SpanWordsFrom(s, i + 1)

SpanWords(s) == SpanWordsFrom(s, 1)

(***************************************************************************)
(* Values: what JSON.parse can hand back, and Map.get's undefined          *)
(***************************************************************************)
Undefined == [kind |-> "undefined", reading |-> "", meaning |-> ""]
JsonNull == [kind |-> "null", reading |-> "", meaning |-> ""]
Definition(r, m) == [kind |-> "object", reading |-> r, meaning |-> m]

\* { reading: "?", meaning: "Definition unavailable" }
Sentinel == Definition("?", "Definition unavailable")

\* !definition is false
Truthy(v) == v.kind = "object"

\* Map.prototype.has / get / set
MapHas(map, key) == key \in DOMAIN map
MapGet(map, key) == IF key \in DOMAIN map THEN map[key] ELSE Undefined
\* a set that starts a new map
MapSetFresh(map, key, value) == [k \in {key} |-> value]
MapSet(map, key, value) ==
  [k \in DOMAIN map \cup {key} |-> IF k = key THEN value ELSE map[k]]
EmptyMap == [k \in {} |-> Undefined]

\* String.prototype.trim on the values the input fields take here
Trim(str) == IF str = " " THEN "" ELSE str

(***************************************************************************)
(* Popup content                                                           *)
(***************************************************************************)
EmptyHtml == [kind |-> "empty", reading |-> "", meaning |-> ""]
\* '<div>Looking up definition...</div>'
LoadingHtml == [kind |-> "loading", reading |-> "", meaning |-> ""]
\* <div><strong>Reading:</strong> ...</div><div><strong>Meaning:</strong> ...</div>
DefinitionHtml(d) ==
  [kind |-> "definition", reading |-> d.reading, meaning |-> d.meaning]

NoWord == <<>>

\* `${this.currentWord} (${definition.reading}): ${definition.meaning}`: the
\* pieces of the template literal, in order
TextToCopyReadingLast(word, definition) ==
  <<word, " (", definition.meaning, "): ", definition.reading>>

TextToCopy(word, definition) ==
  <<word, " (", definition.reading, "): ", definition.meaning>>

\* nothing was handed to the clipboard
NoText == <<>>

(***************************************************************************)
(* Bounds and inputs of the session                                        *)
(***************************************************************************)
\* showWordPopup invocations that reach fetch, over a whole run
MaxCalls == 2
\* generateStory invocations suspended at the same time
MaxGenerating == 1
\* the same, where only story generation is explored
MaxOverlapping == 2

InputValues == {"", "sk"}
PromptValues == {"", "topic"}

\* contents the lookup service may answer with, once parsed
LookupContents == {Definition("r1", "m1"), Definition("r2", "m2"), JsonNull}

\* U+732B U+304C U+597D U+304D U+3067 U+3059 U+3002
NekoText == <<29483, 12364, 22909, 12365, 12391, 12377, 12290>>
\* U+732B U+3002
NekoOnly == <<29483, 12290>>

\* contents the story service may answer with, once parsed; a missing field
\* reads as undefined
StoryContents ==
  { [japanese |-> NekoText, english |-> <<73, NL, 108>>, hasEnglish |-> TRUE],
    [japanese |-> NekoOnly, english |-> <<>>, hasEnglish |-> FALSE] }

\* what the first await of a request ends with
FetchFailures == {"reject", "status401", "status429", "status500"}
\* what fails between a fetched response and its parsed content: json()
\* rejects, or the content cannot be read or parsed
BodyFailures == {"badBody", "badContent"}
\* getWordDefinition treats every status alike: one non-OK status stands for all
LookupFetchFailures == {"reject", "status500"}
LookupFailures == LookupFetchFailures \cup BodyFailures

(***************************************************************************)
(* getWordDefinition                                                       *)
(***************************************************************************)
\* a cache test by the truthiness of the cached value
HasCachedTruthy(cache, word) == Truthy(MapGet(cache, word))

\* if (this.fallbackDefinitions.has(word))
HasCached(cache, word) == MapHas(cache, word)

\* a cache write that keeps an entry already there
CacheResultKeepFirst(cache, word, parsedContent) ==
  IF MapHas(cache, word) THEN cache ELSE MapSet(cache, word, parsedContent)

\* this.fallbackDefinitions.set(word, parsedContent)
CacheResult(cache, word, parsedContent) == MapSet(cache, word, parsedContent)

\* a catch block that stores what it returns
CatchBlockCaching(cache, word, failure) ==
  [cache |-> MapSet(cache, word, Sentinel), raised |-> FALSE, value |-> Sentinel]

\* a handler that lets a non-OK status through
CatchBlockStatusEscapes(cache, word, failure) ==
  IF failure = "status500"
  THEN [cache |-> cache, raised |-> TRUE, value |-> Undefined]
  ELSE [cache |-> cache, raised |-> FALSE, value |-> Sentinel]

\* catch (error) { console.error(...); return { reading: "?", ... }; }
CatchBlock(cache, word, failure) ==
  [cache |-> cache, raised |-> FALSE, value |-> Sentinel]

\* the try body from the parsed content on: cache it, return it
TryTail(cache, word, parsedContent) ==
  [cache |-> CacheResult(cache, word, parsedContent),
   raised |-> FALSE, value |-> parsedContent]

(***************************************************************************)
(* positionPopup: the arithmetic of the frame callback                     *)
(*                                                                         *)
(* Coordinates and sizes are whole CSS pixels.  left and top are kept in   *)
(* half pixels (twice the pixel value): popupWidth / 2 and                 *)
(* (viewportHeight - popupHeight) / 2 are the only divisions.              *)
(***************************************************************************)
Twice(px) == 2 * px
Max(a, b) == IF a >= b THEN a ELSE b

\* the horizontal part without its second test
HorizontalLeftNoMargin(touchX, popupWidth, viewportWidth) ==
  LET left == Twice(touchX) - popupWidth IN
  IF left + Twice(popupWidth) > Twice(viewportWidth - 20)
  THEN Twice(viewportWidth - popupWidth - 20)
  ELSE left

\* let left = touchX - popupWidth / 2; if (left + popupWidth > ...) ...;
\* if (left < 20) left = 20
HorizontalLeft(touchX, popupWidth, viewportWidth) ==
  LET left    == Twice(touchX) - popupWidth
      shifted == IF left + Twice(popupWidth) > Twice(viewportWidth - 20)
                 THEN Twice(viewportWidth - popupWidth - 20)
                 ELSE left
  IN IF shifted < Twice(20) THEN Twice(20) ELSE shifted

\* a vertical part that centres as soon as the popup does not fit above
VerticalTopNoBelow(touchY, popupHeight, viewportHeight) ==
  LET top == Twice(touchY - popupHeight - 20) IN
  IF top < Twice(20)
  THEN Max(Twice(20), viewportHeight - popupHeight)
  ELSE top

\* let top = touchY - popupHeight - 20; if (top < 20) top = touchY + 20;
\* if (top + popupHeight > viewportHeight - 20) top = Math.max(20, ...)
VerticalTop(touchY, popupHeight, viewportHeight) ==
  LET top     == Twice(touchY - popupHeight - 20)
      flipped == IF top < Twice(20) THEN Twice(touchY + 20) ELSE top
  IN IF flipped + Twice(popupHeight) > Twice(viewportHeight - 20)
     THEN Max(Twice(20), viewportHeight - popupHeight)
     ELSE flipped

\* no positionPopup run
NoEvent == [type |-> "none", x |-> 0, y |-> 0]
NoWindow == [scrollX |-> 0, scrollY |-> 0, innerWidth |-> 0, innerHeight |-> 0]
NoCapture == [touchX |-> 0, touchY |-> 0, viewportWidth |-> 0, viewportHeight |-> 0]
NoRect == [width |-> 0, height |-> 0]
NoStyle == [left |-> 0, top |-> 0]

PlaceIdle ==
  /\ event = NoEvent
  /\ window = NoWindow
  /\ captured = NoCapture
  /\ popupRect = NoRect
  /\ popupStyle = NoStyle
  /\ ppc = "idle"

\* no story generation attempt is pending
NoAttempt ==
  [attempt |-> FALSE, storySectionHidden |-> TRUE,
   japaneseStoryHTML |-> <<>>, englishStoryHTML |-> <<>>]

(***************************************************************************)
(* Session state after construction                                        *)
(***************************************************************************)
InitSession(key, prompt) ==
  /\ localStorage = [openai_api_key |-> key, story_prompt |-> prompt]
  /\ apiKeyInput = key
  /\ promptInput = prompt
  /\ generateBtnDisabled = FALSE
  /\ loadingHidden = TRUE
  /\ storySectionHidden = TRUE
  /\ toggleBtnHidden = TRUE
  /\ japaneseStoryHTML = <<>>
  /\ englishStoryHTML = <<>>
  /\ japaneseStoryHidden = FALSE
  /\ englishStoryHidden = TRUE
  /\ currentLanguage = "japanese"
  /\ clickListeners = 0
  /\ fallbackDefinitions = EmptyMap
  /\ currentWord = NoWord
  /\ wordPopupHidden = TRUE
  /\ popupWord = NoWord
  /\ popupMeaning = EmptyHtml
  /\ popupAt = NoWord
  /\ lastAlert = ""
  /\ clipboardWrite = NoText
  /\ shownBefore = NoAttempt
  /\ generating = [fetch |-> 0, json |-> 0]
  /\ calls = <<>>

(***************************************************************************)
(* Helpers shared by the handlers                                          *)
(***************************************************************************)
\* the step raises no alert
NoAlert == lastAlert' = ""

\* the step hands nothing to the clipboard
NoCopy == clipboardWrite' = NoText

\* hidePopup()
hidePopup == wordPopupHidden' = TRUE

\* a document listener that hides the popup whatever the target
handleDocumentClickAnyTarget(inPopup, isClickableWord) == hidePopup

\* handleDocumentClick(event): inPopup is this.wordPopup.contains(event.target),
\* isClickableWord is event.target.classList.contains("clickable-word")
handleDocumentClick(inPopup, isClickableWord) ==
  IF ~inPopup /\ ~isClickableWord THEN hidePopup ELSE UNCHANGED wordPopupHidden

\* handleDocumentClick for a target outside the popup that is no clickable word
DocumentClickOutside == handleDocumentClick(FALSE, FALSE)

\* the story display an attempt starts from
DisplayNow ==
  [attempt |-> TRUE, storySectionHidden |-> storySectionHidden,
   japaneseStoryHTML |-> japaneseStoryHTML, englishStoryHTML |-> englishStoryHTML]

\* history of the attempts: the display before the earliest pending attempt
AttemptStarts ==
  shownBefore' = IF generating.fetch + generating.json = 0
                 THEN DisplayNow ELSE shownBefore
AttemptEnds ==
  shownBefore' = IF generating.fetch + generating.json = 1
                 THEN NoAttempt ELSE shownBefore

\* showLoading(show)
showLoading(show) ==
  IF show
  THEN loadingHidden' = FALSE /\ storySectionHidden' = TRUE
  ELSE loadingHidden' = TRUE

\* a rebinding that adds its listener to the elements as they are
bindWordClickEventsNoClone(listeners) == listeners + 1

\* word.cloneNode(true): the clone has none of the listeners of the element
cloneNode(listeners) == 0

\* bindWordClickEvents(): every clickable word, with listeners click listeners
\* so far, is replaced by a clone and gets one click listener (and the touch
\* listeners, of which touchend alone calls showWordPopup and cancels the
\* click of the touch)
bindWordClickEvents(listeners) == cloneNode(listeners) + 1

\* a display update that shows the translated view beside the source view
updateLanguageDisplayKeepsSource(lang, listeners) ==
  IF lang = "japanese"
  THEN /\ japaneseStoryHidden' = FALSE
       /\ englishStoryHidden' = TRUE
       /\ clickListeners' = 1
  ELSE /\ englishStoryHidden' = FALSE
       /\ UNCHANGED <<japaneseStoryHidden, clickListeners>>

\* updateLanguageDisplay() for the language lang; listeners is the number of
\* click listeners on each clickable word when it is called
updateLanguageDisplay(lang, listeners) ==
  IF lang = "japanese"
  THEN /\ japaneseStoryHidden' = FALSE
       /\ englishStoryHidden' = TRUE
       /\ clickListeners' = bindWordClickEvents(listeners)
  ELSE /\ japaneseStoryHidden' = TRUE
       /\ englishStoryHidden' = FALSE
       /\ clickListeners' = listeners

\* error.message.includes(needle): "HTTP 401: ..." and "HTTP 429: ..." hold the
\* status; the messages of a rejected fetch ("Failed to fetch", "Load failed",
\* "NetworkError when ..."), of a body or content that does not parse and of a
\* TypeError hold none of "401", "429", "network"
MessageIncludes(error, needle) ==
  \/ error = "status401" /\ needle = "401"
  \/ error = "status429" /\ needle = "429"

\* the catch block of generateStory
ErrorMessage(error) ==
  IF MessageIncludes(error, "401")
  THEN "Invalid API key. Please check your OpenAI API key."
  ELSE IF MessageIncludes(error, "429")
  THEN "API rate limit exceeded. Please wait and try again."
  ELSE IF MessageIncludes(error, "network")
  THEN "Network error. Please check your connection."
  ELSE "Error generating story. Please try again."

\* the words that can be clicked: the interactive spans of the visible source view
ClickableWords ==
  IF storySectionHidden \/ japaneseStoryHidden \/ clickListeners = 0
  THEN {}
  ELSE {SpanWords(japaneseStoryHTML)[i] : i \in 1..Len(SpanWords(japaneseStoryHTML))}

(***************************************************************************)
(* Handlers of the session                                                 *)
(***************************************************************************)
storyVars ==
  <<generateBtnDisabled, loadingHidden, storySectionHidden, toggleBtnHidden,
    japaneseStoryHTML, englishStoryHTML, japaneseStoryHidden,
    englishStoryHidden, currentLanguage, clickListeners, generating,
    shownBefore>>
inputVars == <<localStorage, apiKeyInput, promptInput>>
popupVars == <<wordPopupHidden, popupWord, popupMeaning, popupAt>>
lookupVars == <<fallbackDefinitions, currentWord, calls>>

sessionVars ==
  <<inputVars, storyVars, popupVars, lookupVars, lastAlert, clipboardWrite>>
vars == <<textVars, placeVars, sessionVars>>

\* input event of the credential field: saveApiKey()
InputApiKey(v) ==
  /\ v # apiKeyInput
  /\ apiKeyInput' = v
  /\ localStorage' = [localStorage EXCEPT !.openai_api_key = v]
  /\ UNCHANGED <<textVars, placeVars, promptInput, storyVars, popupVars, lookupVars>>
  /\ NoAlert
  /\ NoCopy

\* input event of the prompt field: savePrompt()
InputPrompt(v) ==
  /\ v # promptInput
  /\ promptInput' = v
  /\ localStorage' = [localStorage EXCEPT !.story_prompt = v]
  /\ UNCHANGED <<textVars, placeVars, apiKeyInput, storyVars, popupVars, lookupVars>>
  /\ NoAlert
  /\ NoCopy

\* generateStory() up to its first await; limit bounds the calls that wait
\* for the service at the same time
generateStoryStart(limit) ==
  IF Trim(apiKeyInput) = ""
  THEN /\ lastAlert' = "Please enter your OpenAI API key"
       /\ UNCHANGED <<generateBtnDisabled, loadingHidden, storySectionHidden,
                      generating, shownBefore>>
  ELSE IF Trim(promptInput) = ""
  THEN /\ lastAlert' = "Please enter a story prompt"
       /\ UNCHANGED <<generateBtnDisabled, loadingHidden, storySectionHidden,
                      generating, shownBefore>>
  ELSE /\ generating.fetch + generating.json < limit
       /\ showLoading(TRUE)
       /\ generateBtnDisabled' = TRUE
       /\ generating' = [generating EXCEPT !.fetch = @ + 1]
       /\ AttemptStarts
       /\ NoAlert

\* click on the generate button: its listener, then the document's
ClickGenerateUpTo(limit) ==
  /\ ~generateBtnDisabled
  /\ generateStoryStart(limit)
  /\ DocumentClickOutside
  /\ NoCopy
  /\ UNCHANGED <<textVars, placeVars, inputVars, toggleBtnHidden, japaneseStoryHTML,
                 englishStoryHTML, japaneseStoryHidden, englishStoryHidden,
                 currentLanguage, clickListeners, popupWord, popupMeaning,
                 popupAt, lookupVars>>

\* keydown Ctrl+Enter in the prompt field
CtrlEnterUpTo(limit) ==
  /\ generateStoryStart(limit)
  /\ NoCopy
  /\ UNCHANGED <<textVars, placeVars, inputVars, toggleBtnHidden, japaneseStoryHTML,
                 englishStoryHTML, japaneseStoryHidden, englishStoryHidden,
                 currentLanguage, clickListeners, popupVars, lookupVars>>

ClickGenerate == ClickGenerateUpTo(MaxGenerating)
CtrlEnter == CtrlEnterUpTo(MaxGenerating)

\* a catch block with no finally after it
generateStoryFailsNoFinally(error) ==
  /\ lastAlert' = ErrorMessage(error)
  /\ UNCHANGED <<loadingHidden, generateBtnDisabled, storySectionHidden>>
  /\ AttemptEnds
  /\ NoCopy

\* catch (error) { ... alert(errorMessage) } finally { ... } of generateStory
generateStoryFails(error) ==
  /\ lastAlert' = ErrorMessage(error)
  /\ showLoading(FALSE)
  /\ generateBtnDisabled' = FALSE
  /\ UNCHANGED storySectionHidden
  /\ AttemptEnds
  /\ NoCopy

\* the fetch of callOpenAIService resolves with an OK response
StoryFetchOk ==
  /\ generating.fetch > 0
  /\ generating' = [fetch |-> generating.fetch - 1, json |-> generating.json + 1]
  /\ NoAlert
  /\ NoCopy
  /\ UNCHANGED <<textVars, placeVars, inputVars, generateBtnDisabled, loadingHidden,
                 storySectionHidden, toggleBtnHidden, japaneseStoryHTML,
                 englishStoryHTML, japaneseStoryHidden, englishStoryHidden,
                 currentLanguage, clickListeners, shownBefore, popupVars,
                 lookupVars>>

\* the fetch of callOpenAIService rejects or resolves with a non-OK status
StoryFetchFails(failure) ==
  /\ generating.fetch > 0
  /\ generating' = [generating EXCEPT !.fetch = @ - 1]
  /\ generateStoryFails(failure)
  /\ UNCHANGED <<textVars, placeVars, inputVars, toggleBtnHidden, japaneseStoryHTML,
                 englishStoryHTML, japaneseStoryHidden, englishStoryHidden,
                 currentLanguage, clickListeners, popupVars, lookupVars>>

\* response.json() of callOpenAIService rejects, or the content cannot be
\* read or parsed
StoryBodyFails(failure) ==
  /\ generating.json > 0
  /\ generating' = [generating EXCEPT !.json = @ - 1]
  /\ generateStoryFails(failure)
  /\ UNCHANGED <<textVars, placeVars, inputVars, toggleBtnHidden, japaneseStoryHTML,
                 englishStoryHTML, japaneseStoryHidden, englishStoryHidden,
                 currentLanguage, clickListeners, popupVars, lookupVars>>

\* callOpenAIService returns stories: displayStories(stories) and the rest of
\* the try block, then finally
StoryArrives(stories) ==
  /\ generating.json > 0
  /\ generating' = [generating EXCEPT !.json = @ - 1]
  /\ japaneseStoryHTML' = makeWordsClickable(stories.japanese)
  /\ IF stories.hasEnglish
     THEN /\ englishStoryHTML' = ReplaceNewlines(stories.english)
          /\ currentLanguage' = "japanese"
          \* the elements innerHTML has just made have no listener
          /\ updateLanguageDisplay("japanese", 0)
          /\ storySectionHidden' = FALSE
          /\ toggleBtnHidden' = FALSE
          /\ NoAlert
     ELSE \* stories.english.replace throws a TypeError, caught: the new
          \* elements of the source view have no listener yet
          /\ lastAlert' = ErrorMessage("typeError")
          /\ clickListeners' = 0
          /\ UNCHANGED <<englishStoryHTML, currentLanguage, japaneseStoryHidden,
                         englishStoryHidden, storySectionHidden, toggleBtnHidden>>
  /\ showLoading(FALSE)
  /\ generateBtnDisabled' = FALSE
  /\ AttemptEnds
  /\ NoCopy
  /\ UNCHANGED <<textVars, placeVars, inputVars, popupVars, lookupVars>>

\* click on the toggle button: toggleLanguage(), then the document's listener
ClickToggle ==
  /\ ~toggleBtnHidden
  /\ currentLanguage' = IF currentLanguage = "japanese" THEN "english" ELSE "japanese"
  /\ updateLanguageDisplay(currentLanguage', clickListeners)
  /\ DocumentClickOutside
  /\ UNCHANGED <<textVars, placeVars, inputVars, generateBtnDisabled, loadingHidden,
                 storySectionHidden, toggleBtnHidden, japaneseStoryHTML,
                 englishStoryHTML, generating, shownBefore, popupWord,
                 popupMeaning, popupAt, lookupVars>>
  /\ NoAlert
  /\ NoCopy

\* the lines of showWordPopup after the definition is known
showDefinition(word, definition) ==
  IF ~Truthy(definition)
  THEN UNCHANGED <<popupVars, currentWord>>
  ELSE /\ popupWord' = word
       /\ popupMeaning' = DefinitionHtml(definition)
       /\ wordPopupHidden' = FALSE
       /\ popupAt' = word
       /\ currentWord' = word

\* a new suspended call: showWordPopup waits for getWordDefinition's fetch
NewCall(word) ==
  [word |-> word, pc |-> "fetch", outcome |-> "pending", returned |-> Undefined,
   raised |-> FALSE, landed |-> 0,
   overlapped |-> {i \in 1..Len(calls) : calls[i].pc # "done"}]

\* a credential test placed after the lines that show the loading state
showWordPopupNoKeyAfterLoading(word) ==
  /\ lastAlert' = "API key needed to look up word definitions"
  /\ popupWord' = word
  /\ popupMeaning' = LoadingHtml
  /\ wordPopupHidden' = FALSE
  /\ popupAt' = word
  /\ UNCHANGED <<currentWord, calls>>

\* if (!apiKey) { alert(...); return; } of showWordPopup
showWordPopupNoKey(word) ==
  /\ lastAlert' = "API key needed to look up word definitions"
  /\ UNCHANGED <<popupVars, currentWord, calls>>

\* click (or touchend) on a clickable word: showWordPopup(event) up to its await
ClickWord(word) ==
  /\ word \in ClickableWords
  /\ LET definition == MapGet(fallbackDefinitions, word) IN
     IF Truthy(definition)
     THEN /\ showDefinition(word, definition)
          /\ UNCHANGED calls
          /\ NoAlert
     ELSE IF Trim(apiKeyInput) = ""
     THEN showWordPopupNoKey(word)
     ELSE IF HasCached(fallbackDefinitions, word)
     THEN \* the loading state is shown, getWordDefinition returns the cached
          \* (falsy) value without a request, and showWordPopup returns
          /\ popupWord' = word
          /\ popupMeaning' = LoadingHtml
          /\ wordPopupHidden' = FALSE
          /\ popupAt' = word
          /\ UNCHANGED <<currentWord, calls>>
          /\ NoAlert
     ELSE /\ Len(calls) < MaxCalls
          /\ popupWord' = word
          /\ popupMeaning' = LoadingHtml
          /\ wordPopupHidden' = FALSE
          /\ popupAt' = word
          /\ calls' = Append(calls, NewCall(word))
          /\ UNCHANGED currentWord
          /\ NoAlert
  /\ UNCHANGED <<textVars, placeVars, inputVars, storyVars, fallbackDefinitions>>
  /\ NoCopy

\* getWordDefinition returns result to showWordPopup, which goes on
Resume(i, outcome, result) ==
  /\ calls' = [calls EXCEPT ![i] =
                 [@ EXCEPT !.pc = "done", !.outcome = outcome,
                           !.returned = result.value, !.raised = result.raised,
                           !.landed = 1 + Cardinality({k \in 1..Len(calls) :
                                                         calls[k].pc = "done"})]]
  /\ fallbackDefinitions' = result.cache
  /\ IF result.raised
     THEN UNCHANGED <<popupVars, currentWord>>
     ELSE showDefinition(calls[i].word, result.value)
  /\ UNCHANGED <<textVars, placeVars, inputVars, storyVars>>
  /\ NoAlert
  /\ NoCopy

\* the fetch of getWordDefinition resolves with an OK response
LookupFetchOk(i) ==
  /\ i \in 1..Len(calls)
  /\ calls[i].pc = "fetch"
  /\ calls' = [calls EXCEPT ![i].pc = "json"]
  /\ UNCHANGED <<textVars, placeVars, inputVars, storyVars, popupVars, fallbackDefinitions,
                 currentWord>>
  /\ NoAlert
  /\ NoCopy

\* the fetch of getWordDefinition rejects or resolves with a non-OK status
LookupFetchFails(i, failure) ==
  /\ i \in 1..Len(calls)
  /\ calls[i].pc = "fetch"
  /\ Resume(i, failure, CatchBlock(fallbackDefinitions, calls[i].word, failure))

\* response.json() rejects, or the content cannot be read or parsed
LookupBodyFails(i, failure) ==
  /\ i \in 1..Len(calls)
  /\ calls[i].pc = "json"
  /\ Resume(i, failure, CatchBlock(fallbackDefinitions, calls[i].word, failure))

\* the response is read and its content parsed
LookupArrives(i, parsedContent) ==
  /\ i \in 1..Len(calls)
  /\ calls[i].pc = "json"
  /\ Resume(i, "parsed", TryTail(fallbackDefinitions, calls[i].word, parsedContent))

\* click on the close control of the popup: hidePopup(); the document's
\* listener finds the target inside the popup
ClickClose ==
  /\ ~wordPopupHidden
  /\ hidePopup
  /\ UNCHANGED <<textVars, placeVars, inputVars, storyVars, popupWord,
                 popupMeaning, popupAt, lookupVars>>
  /\ NoAlert
  /\ NoCopy

\* click inside the popup, on neither of its buttons: only the document's
\* listener runs, and finds the target inside the popup
ClickInsidePopup ==
  /\ ~wordPopupHidden
  /\ handleDocumentClick(TRUE, FALSE)
  /\ UNCHANGED <<textVars, placeVars, inputVars, storyVars, popupWord,
                 popupMeaning, popupAt, lookupVars>>
  /\ NoAlert
  /\ NoCopy

\* copyToClipboard(): the text goes to navigator.clipboard.writeText and, when
\* that rejects, to the textarea of the fallback; the label of the button is
\* not modelled
copyToClipboard ==
  LET definition == MapGet(fallbackDefinitions, currentWord) IN
  IF ~Truthy(definition)
  THEN clipboardWrite' = NoText
  ELSE clipboardWrite' = TextToCopy(currentWord, definition)

\* click on the copy button of the popup: copyToClipboard(), then the
\* document's listener
ClickCopy ==
  /\ ~wordPopupHidden
  /\ copyToClipboard
  /\ handleDocumentClick(TRUE, FALSE)
  /\ UNCHANGED <<textVars, placeVars, inputVars, storyVars, popupWord,
                 popupMeaning, popupAt, lookupVars>>
  /\ NoAlert

\* click on anything that is neither in the popup, nor a clickable word, nor
\* a button: handleDocumentClick
ClickOutside ==
  /\ DocumentClickOutside
  /\ UNCHANGED <<textVars, placeVars, inputVars, storyVars, popupWord,
                 popupMeaning, popupAt, lookupVars>>
  /\ NoAlert
  /\ NoCopy

Init ==
  /\ text = <<>>
  /\ wordsToMakeClickable = <<>>
  /\ clickableText = <<>>
  /\ reText = <<>>
  /\ tpc = "idle"
  /\ PlaceIdle
  /\ \E key \in InputValues : \E prompt \in PromptValues : InitSession(key, prompt)

Next ==
  \/ \E v \in InputValues : InputApiKey(v)
  \/ \E v \in PromptValues : InputPrompt(v)
  \/ ClickGenerate
  \/ CtrlEnter
  \/ StoryFetchOk
  \/ \E f \in FetchFailures : StoryFetchFails(f)
  \/ \E f \in BodyFailures : StoryBodyFails(f)
  \/ \E s \in StoryContents : StoryArrives(s)
  \/ ClickToggle
  \/ \E w \in ClickableWords : ClickWord(w)
  \/ \E i \in 1..MaxCalls : LookupFetchOk(i)
  \/ \E i \in 1..MaxCalls : \E f \in LookupFetchFailures : LookupFetchFails(i, f)
  \/ \E i \in 1..MaxCalls : \E f \in BodyFailures : LookupBodyFails(i, f)
  \/ \E i \in 1..MaxCalls : \E c \in LookupContents : LookupArrives(i, c)
  \/ ClickClose
  \/ ClickInsidePopup
  \/ ClickCopy
  \/ ClickOutside

Spec == Init /\ [][Next]_vars

(***************************************************************************)
(* Story generation alone, with overlapping generateStory calls            *)
(***************************************************************************)
ClickGenerateAgain == ClickGenerateUpTo(MaxOverlapping)
CtrlEnterAgain == CtrlEnterUpTo(MaxOverlapping)

NextGen ==
  \/ \E v \in InputValues : InputApiKey(v)
  \/ \E v \in PromptValues : InputPrompt(v)
  \/ ClickGenerateAgain
  \/ CtrlEnterAgain
  \/ StoryFetchOk
  \/ \E f \in FetchFailures : StoryFetchFails(f)
  \/ \E f \in BodyFailures : StoryBodyFails(f)
  \/ \E s \in StoryContents : StoryArrives(s)
  \/ ClickToggle
  \/ ClickOutside

SpecGen == Init /\ [][NextGen]_vars

(***************************************************************************)
(* Inputs of the annotator                                                 *)
(***************************************************************************)
MaxTextLen == 4

\* U+6771, U+4EAC (ideographs), U+3082 (hiragana of the class, a particle),
\* U+304C (hiragana outside the class), '<', '>', newline
Alphabet == {26481, 20140, 12418, 12364, LT, GT, NL}

\* U+6771 U+4EAC U+90FD
TokyoTo == <<26481, 20140, 37117>>
\* U+6771 U+4EAC U+304C U+4EAC
TokyoGaKyo == <<26481, 20140, 12364, 20140>>
\* U+3088 U+308A (a two-character particle of the class), U+3001, U+3082 U+308A
YoriMori == <<12424, 12426, 12289, 12418, 12426>>

\* '<' 'b' '>' U+732B: a story that holds a tag of its own
BoldNeko == <<LT, 98, GT, 29483>>

ExampleTexts == {NekoText, TokyoTo, TokyoGaKyo, YoriMori, BoldNeko}

Texts ==
  UNION {[1..n -> Alphabet] : n \in 0..MaxTextLen} \cup ExampleTexts

InitText ==
  /\ InitSession("", "")
  /\ PlaceIdle
  /\ text \in Texts
  /\ wordsToMakeClickable = <<>>
  /\ clickableText = <<>>
  /\ reText = <<>>
  /\ tpc = "input"

\* makeWordsClickable(text)
Annotate ==
  /\ tpc = "input"
  /\ wordsToMakeClickable' = ExtractWords(text)
  /\ clickableText' = makeWordsClickable(text)
  /\ tpc' = "annotated"
  /\ UNCHANGED <<text, reText, sessionVars, placeVars>>

\* makeWordsClickable applied to its own output
Reannotate ==
  /\ tpc = "annotated"
  /\ reText' = makeWordsClickable(clickableText)
  /\ tpc' = "reannotated"
  /\ UNCHANGED <<text, wordsToMakeClickable, clickableText, sessionVars,
                 placeVars>>

NextText == Annotate \/ Reannotate

SpecText == InitText /\ [][NextText]_vars

(***************************************************************************)
(* Inputs of positionPopup                                                 *)
(***************************************************************************)
InnerWidths == {100, 400}
InnerHeights == {150, 800}
\* trigger points, relative to the viewport
PointsX == {0, 30, 75, 390}
PointsY == {0, 50, 130, 700, 799}
Scrolls == {[x |-> 0, y |-> 0], [x |-> 0, y |-> 500]}
EventTypes == {"click", "touchend"}
\* sizes the popup can measure
PopupWidths == {45, 60, 300, 360, 380}
PopupHeights == {60, 100, 101, 760, 790}

\* a click carries clientX / clientY, a touch pageX / pageY
EventAt(type, x, y, scroll) ==
  IF type = "touchend"
  THEN [type |-> type, x |-> x + scroll.x, y |-> y + scroll.y]
  ELSE [type |-> type, x |-> x, y |-> y]

InitPlace ==
  /\ InitSession("", "")
  /\ text = <<>>
  /\ wordsToMakeClickable = <<>>
  /\ clickableText = <<>>
  /\ reText = <<>>
  /\ tpc = "idle"
  /\ \E w \in InnerWidths : \E h \in InnerHeights : \E scroll \in Scrolls :
       \E x \in PointsX : \E y \in PointsY : \E type \in EventTypes :
         /\ x < w
         /\ y < h
         /\ window = [scrollX |-> scroll.x, scrollY |-> scroll.y,
                      innerWidth |-> w, innerHeight |-> h]
         /\ event = EventAt(type, x, y, scroll)
  /\ captured = NoCapture
  /\ popupRect = NoRect
  /\ popupStyle = NoStyle
  /\ ppc = "event"

\* positionPopup(event, popup) up to requestAnimationFrame
positionPopup ==
  /\ ppc = "event"
  /\ captured' =
       [touchX |-> IF event.type = "touchend"
                   THEN event.x - window.scrollX ELSE event.x,
        touchY |-> IF event.type = "touchend"
                   THEN event.y - window.scrollY ELSE event.y,
        viewportWidth |-> window.innerWidth,
        viewportHeight |-> window.innerHeight]
  /\ ppc' = "frame"
  /\ UNCHANGED <<event, window, popupRect, popupStyle, textVars, sessionVars>>

\* the callback of requestAnimationFrame: measure the popup, place it
AnimationFrame(width, height) ==
  /\ ppc = "frame"
  /\ popupRect' = [width |-> width, height |-> height]
  /\ popupStyle' =
       [left |-> HorizontalLeft(captured.touchX, width, captured.viewportWidth),
        top |-> VerticalTop(captured.touchY, height, captured.viewportHeight)]
  /\ ppc' = "placed"
  /\ UNCHANGED <<event, window, captured, textVars, sessionVars>>

NextPlace ==
  \/ positionPopup
  \/ \E width \in PopupWidths : \E height \in PopupHeights :
       AnimationFrame(width, height)

SpecPlace == InitPlace /\ [][NextPlace]_vars

(***************************************************************************)
(* Claims about the annotator (checked under SpecText)                     *)
(***************************************************************************)
Elements(seq) == {seq[i] : i \in 1..Len(seq)}

ParticleSet == Elements(particles)

\* the maximal runs of characters of the class, stated by position
MaximalRuns(s) ==
  {SubSeq(s, p[1], p[2]) :
     p \in {q \in (1..Len(s)) \X (1..Len(s)) :
              /\ q[1] <= q[2]
              /\ \A k \in q[1]..q[2] : InScript(s[k])
              /\ (q[1] = 1 \/ ~InScript(s[q[1] - 1]))
              /\ (q[2] = Len(s) \/ ~InScript(s[q[2] + 1]))}}

\* C1: in the markup makeWordsClickable returns, interactive spans are never
\* nested: no interactive span opens inside the content of another one (so a
\* shorter candidate is never wrapped inside the span of a longer one).
C1_SpansNeverNested ==
  tpc = "annotated" =>
    \A i \in 1..Len(clickableText) : Depth(clickableText, i) <= 1

\* C2: running makeWordsClickable on its own output leaves the number of
\* interactive span tags unchanged.
C2_ReannotateKeepsSpanCount ==
  tpc = "reannotated" => SpanCount(reText) = SpanCount(clickableText)

\* C3: for the text U+732B U+304C U+597D U+304D U+3067 U+3059 U+3002 the
\* output holds exactly two interactive spans, with surface forms U+732B and
\* U+597D U+304D, in that order.
C3_NekoGaSukiDesu ==
  (tpc = "annotated" /\ text = NekoText) =>
    SpanWords(clickableText) = << <<29483>>, <<22909, 12365>> >>

\* C4: the surface forms the tokenizer collects are exactly the maximal runs
\* of characters of the class whose whole text is no particle; each is
\* non-empty and a contiguous substring of the text.
C4_TokenizerResult ==
  tpc = "annotated" =>
    /\ Elements(wordsToMakeClickable) = MaximalRuns(text) \ ParticleSet
    /\ \A w \in Elements(wordsToMakeClickable) :
         /\ Len(w) >= 1
         /\ \E i \in 1..Len(text) :
              i + Len(w) - 1 <= Len(text) /\ SubSeq(text, i, i + Len(w) - 1) = w

\* a text with a run that is a particle (dropped) and a run that only
\* contains one (kept): U+3088 U+308A is dropped, U+3082 U+308A is kept
C4_Witness ==
  /\ tpc = "annotated"
  /\ text = YoriMori
  /\ wordsToMakeClickable = << <<12418, 12426>> >>
(***************************************************************************)
(* Claims about the definition resolver and the popup (checked under Spec) *)
(***************************************************************************)
\* the words of the stories: U+732B and U+597D
StoryWords == Elements(ExtractWords(NekoText))

CallIds == 1..Len(calls)

\* requests sent to the lookup service for word: one per recorded call
Lookups(word) == Cardinality({i \in CallIds : calls[i].word = word})

IsDone(i) == calls[i].pc = "done"
HasFailed(i) == IsDone(i) /\ calls[i].outcome \in LookupFailures
HasParsed(i) == IsDone(i) /\ calls[i].outcome = "parsed"

\* call i completes in this step
Completes(i) == calls[i].pc # "done" /\ calls'[i].pc = "done"

\* the completed call for word that landed last, among those in ids
LastOf(ids) == CHOOSE i \in ids : \A k \in ids : calls[k].landed <= calls[i].landed

\* calls i and j are for the same word and j was issued while i was pending
Raced(i, j) == calls[i].word = calls[j].word /\ i \in calls[j].overlapped

\* C5 (as stated): once a getWordDefinition call for a word has completed,
\* whatever its outcome, no later step sends a lookup request for that word.
C5_NoLookupAfterCompletion ==
  [][\A w \in StoryWords :
       (\E i \in CallIds : calls[i].word = w /\ IsDone(i))
         => Lookups(w)' = Lookups(w)]_vars

\* C5 (amended): once a getWordDefinition call for a word has completed with
\* a parsed response, no later step sends a lookup request for that word, and
\* a later click on the word that shows a definition shows the cached one.
C5_NoLookupOnceCached ==
  [][\A w \in StoryWords :
       (\E i \in CallIds : calls[i].word = w /\ HasParsed(i))
         => /\ Lookups(w)' = Lookups(w)
            /\ MapHas(fallbackDefinitions', w)
            /\ ( /\ calls' = calls
                 /\ popupWord' = w
                 /\ popupMeaning'.kind = "definition"
                 /\ <<popupWord', popupMeaning'>> # <<popupWord, popupMeaning>> )
               => popupMeaning' = DefinitionHtml(fallbackDefinitions[w])]_vars

\* a word was looked up and cached, another word was clicked after that (its
\* request is still pending), and the popup shows the first word's cached
\* definition again: a click served from the cache, with one request in all
C5_Witness ==
  /\ Len(calls) = 2
  /\ HasParsed(1)
  /\ calls[2].pc = "fetch"
  /\ calls[2].overlapped = {}
  /\ calls[2].word # calls[1].word
  /\ ~wordPopupHidden
  /\ popupWord = calls[1].word
  /\ popupMeaning = DefinitionHtml(fallbackDefinitions[calls[1].word])
  /\ Lookups(calls[1].word) = 1

\* C6 (as stated): after a failed lookup for a word has returned, the cache
\* maps the word to the sentinel Definition.
C6_FailureSentinelCached ==
  \A i \in CallIds :
    HasFailed(i) =>
      /\ MapHas(fallbackDefinitions, calls[i].word)
      /\ fallbackDefinitions[calls[i].word] = Sentinel

\* C6 (amended): a failed lookup returns the sentinel Definition and leaves
\* the cache as it was: the sentinel is not stored.
C6_FailureLeavesCache ==
  [][\A i \in CallIds :
       (Completes(i) /\ calls'[i].outcome \in LookupFailures)
         => /\ calls'[i].returned = Sentinel
            /\ fallbackDefinitions' = fallbackDefinitions]_vars

\* a lookup has failed and its word has no cache entry
C6_Witness ==
  \E i \in CallIds : HasFailed(i) /\ ~MapHas(fallbackDefinitions, calls[i].word)

\* C7: for every failure of the lookup, getWordDefinition completes normally
\* and returns the sentinel Definition; nothing is raised into showWordPopup.
C7_ResolverNeverRaises ==
  \A i \in CallIds :
    IsDone(i) =>
      /\ ~calls[i].raised
      /\ calls[i].outcome \in LookupFailures => calls[i].returned = Sentinel

\* two lookups have failed, one by a non-OK status and one by content that
\* does not parse, and the popup shows the sentinel
C7_Witness ==
  /\ \E i \in CallIds : HasFailed(i) /\ calls[i].outcome = "status500"
  /\ \E i \in CallIds : HasFailed(i) /\ calls[i].outcome = "badContent"
  /\ popupMeaning = DefinitionHtml(Sentinel)

\* C8 (as stated): when two getWordDefinition calls for one word were pending
\* together and both have completed, the cache entry of the word is what the
\* call that landed last returned.
C8_LastLandedWins ==
  \A i \in CallIds : \A j \in CallIds :
    (Raced(i, j) /\ IsDone(i) /\ IsDone(j)) =>
      LET w    == calls[i].word
          last == LastOf({k \in CallIds : calls[k].word = w /\ IsDone(k)})
      IN /\ Lookups(w) >= 2
         /\ MapHas(fallbackDefinitions, w)
         /\ fallbackDefinitions[w] = calls[last].returned

\* C8 (amended): when two getWordDefinition calls for one word were pending
\* together, each sent its own request, and once both have completed the
\* cache entry of the word is the last response that was parsed; if none was,
\* the word has no entry.
C8_LastParsedWins ==
  \A i \in CallIds : \A j \in CallIds :
    (Raced(i, j) /\ IsDone(i) /\ IsDone(j)) =>
      LET w      == calls[i].word
          parsed == {k \in CallIds : calls[k].word = w /\ HasParsed(k)}
      IN /\ Lookups(w) >= 2
         /\ IF parsed = {}
            THEN ~MapHas(fallbackDefinitions, w)
            ELSE /\ MapHas(fallbackDefinitions, w)
                 /\ fallbackDefinitions[w] = calls[LastOf(parsed)].returned

\* two calls for one word raced, both were parsed with different contents,
\* and the second one issued landed first
C8_Witness ==
  /\ Len(calls) = 2
  /\ Raced(1, 2)
  /\ HasParsed(1) /\ HasParsed(2)
  /\ calls[1].returned # calls[2].returned
  /\ calls[2].landed < calls[1].landed

\* C9: when a lookup completes while the popup is hidden (it was dismissed
\* after the click that started the lookup), the popup stays hidden and the
\* selected word is unchanged.
C9_DismissedStaysDismissed ==
  [][\A i \in CallIds :
       (Completes(i) /\ wordPopupHidden)
         => (wordPopupHidden' /\ currentWord' = currentWord)]_vars

\* C10: when the lookup of an earlier click completes while the popup shows
\* the word of the latest lookup click, a different word, the popup's word and
\* content and the selected word stay as they are.
C10_LateResponseKeepsPopup ==
  [][\A i \in CallIds :
       ( /\ Completes(i)
         /\ i < Len(calls)
         /\ calls[Len(calls)].word # calls[i].word
         /\ ~wordPopupHidden
         /\ popupWord = calls[Len(calls)].word )
         => /\ popupWord' = popupWord
            /\ popupMeaning' = popupMeaning
            /\ currentWord' = currentWord]_vars

(***************************************************************************)
(* Claims about positionPopup (checked under SpecPlace)                    *)
(***************************************************************************)
\* the trigger point is inside the viewport
TriggerInside ==
  /\ 0 <= captured.touchX /\ captured.touchX <= captured.viewportWidth
  /\ 0 <= captured.touchY /\ captured.touchY <= captured.viewportHeight

\* C11: with margin 20, for a trigger point inside the viewport and a popup
\* no wider than the viewport width minus 40 and no higher than the viewport
\* height minus 40, the placed popup has left >= 20, left + width <= viewport
\* width - 20, top >= 20 and top + height <= viewport height - 20.
C11_PlacementClamped ==
  ( /\ ppc = "placed"
    /\ TriggerInside
    /\ popupRect.width <= captured.viewportWidth - 40
    /\ popupRect.height <= captured.viewportHeight - 40 )
  => /\ popupStyle.left >= Twice(20)
     /\ popupStyle.left + Twice(popupRect.width) <= Twice(captured.viewportWidth - 20)
     /\ popupStyle.top >= Twice(20)
     /\ popupStyle.top + Twice(popupRect.height) <= Twice(captured.viewportHeight - 20)

\* the example of the claim: viewport 400 x 800, popup 300 x 100, trigger at
\* (390, 50), from a touch on a scrolled page; the popup is shifted left to
\* 80 and flipped below the trigger to 70
C11_Witness ==
  /\ ppc = "placed"
  /\ event = [type |-> "touchend", x |-> 390, y |-> 550]
  /\ captured = [touchX |-> 390, touchY |-> 50,
                 viewportWidth |-> 400, viewportHeight |-> 800]
  /\ popupRect = [width |-> 300, height |-> 100]
  /\ popupStyle = [left |-> Twice(80), top |-> Twice(70)]

\* C12: for a trigger point (x, y) inside the viewport and a popup of height
\* h, top is y - h - 20 when that is at least 20; otherwise y + 20 when
\* y + 20 + h <= viewport height - 20; otherwise max(20, (viewport height -
\* h) / 2).
C12_ThreeTierTop ==
  (ppc = "placed" /\ TriggerInside) =>
    LET y  == captured.touchY
        h  == popupRect.height
        vh == captured.viewportHeight
    IN IF y - h - 20 >= 20 THEN popupStyle.top = Twice(y - h - 20)
       ELSE IF y + 20 + h <= vh - 20 THEN popupStyle.top = Twice(y + 20)
       ELSE popupStyle.top = Max(Twice(20), vh - h)

\* the third tier at a half pixel: viewport height 150, popup height 101,
\* trigger at y = 50 gives top = 24.5
C12_Witness ==
  /\ ppc = "placed"
  /\ captured.touchY = 50
  /\ captured.viewportHeight = 150
  /\ popupRect.height = 101
  /\ popupStyle.top = 49

(***************************************************************************)
(* Claims about story generation and the display (checked under Spec)      *)
(***************************************************************************)
\* generateStory calls waiting for the service
Pending == generating.fetch + generating.json

\* callOpenAIService fails in this step
GenerationFails ==
  \/ \E f \in FetchFailures : StoryFetchFails(f)
  \/ \E f \in BodyFailures : StoryBodyFails(f)

\* C13: when callOpenAIService fails, the display after the notification is
\* the display before the attempt: the story section is visible if it was,
\* with the same content, and the language mode is as it was.
C13_FailureRestoresDisplay ==
  [][GenerationFails =>
       /\ shownBefore.attempt
       /\ storySectionHidden' = shownBefore.storySectionHidden
       /\ japaneseStoryHTML' = shownBefore.japaneseStoryHTML
       /\ englishStoryHTML' = shownBefore.englishStoryHTML
       /\ currentLanguage' = currentLanguage]_vars

\* C14: when a generateStory call that reached the service completes, with
\* success or with any failure, the loading indicator is hidden and the
\* generate button is enabled.
C14_AttemptEndsIdle ==
  [][Pending' < Pending => (loadingHidden' /\ ~generateBtnDisabled')]_vars

\* a story was displayed, and a later attempt has just failed with a
\* rate-limit status: the page is idle and no attempt is pending
C14_Witness ==
  /\ Pending = 0
  /\ lastAlert = ErrorMessage("status429")
  /\ loadingHidden
  /\ ~generateBtnDisabled
  /\ ~toggleBtnHidden

\* C15: when the lookup of the latest click completes while the popup still
\* shows that click's word in the loading state, then for every outcome of
\* the lookup the popup is visible afterwards and shows the word with its
\* definition or with the sentinel; it does not stay in the loading state.
C15_LookupOutcomeShown ==
  [][\A i \in CallIds :
       ( /\ Completes(i)
         /\ i = Len(calls)
         /\ ~wordPopupHidden
         /\ popupWord = calls[i].word
         /\ popupMeaning = LoadingHtml )
         => /\ ~wordPopupHidden'
            /\ popupWord' = calls[i].word
            /\ \/ popupMeaning' = DefinitionHtml(Sentinel)
               \/ /\ MapHas(fallbackDefinitions', calls[i].word)
                  /\ fallbackDefinitions'[calls[i].word].kind = "object"
                  /\ popupMeaning' =
                       DefinitionHtml(fallbackDefinitions'[calls[i].word])]_vars

\* C16: a word that is a key of the definition cache is a key of it after
\* every step: no operation deletes an entry or replaces the cache.
C16_CacheNeverEvicted ==
  [][\A w \in DOMAIN fallbackDefinitions : w \in DOMAIN fallbackDefinitions']_vars

\* both words of the first story are cached, displayStories has since put a
\* later story in the source view, one that does not hold U+597D, and the
\* popup was dismissed
C16_Witness ==
  /\ DOMAIN fallbackDefinitions = StoryWords
  /\ japaneseStoryHTML = makeWordsClickable(NekoOnly)
  /\ wordPopupHidden

\* C17: a click whose target is neither inside the popup nor a clickable
\* word hides the popup; a click on a clickable word, or inside the popup
\* other than on its close control, never hides it.
C17_DismissalRule ==
  [][ /\ (ClickOutside \/ ClickGenerate \/ ClickToggle) => wordPopupHidden'
      /\ ( \/ \E w \in ClickableWords : ClickWord(w)
           \/ ClickInsidePopup
           \/ ClickCopy ) => (wordPopupHidden' => wordPopupHidden) ]_vars

\* the copy button, inside the popup, was clicked and the popup is still shown
C17_Witness ==
  /\ clipboardWrite # NoText
  /\ ~wordPopupHidden

StoryFailureKinds == {"status401", "status429", "reject", "badContent"}

\* story generation fails with failure f in this step
GenerationFailsWith(f) ==
  IF f \in FetchFailures THEN StoryFetchFails(f) ELSE StoryBodyFails(f)

\* C19: the message alerted when story generation fails with one of the four
\* failure kinds differs from the message of each of the other three kinds.
C19_DistinctFailureMessages ==
  [][\A f \in StoryFailureKinds : \A g \in StoryFailureKinds \ {f} :
       GenerationFailsWith(f) => lastAlert' # ErrorMessage(g)]_vars

\* C20: when copy is activated and the selected word has a cached definition
\* with a reading and a meaning, the text handed to the clipboard is the
\* word, " (", the reading, "): " and the meaning; otherwise nothing is
\* handed to the clipboard.
C20_ClipboardText ==
  [][ClickCopy =>
       IF /\ currentWord # NoWord
          /\ MapHas(fallbackDefinitions, currentWord)
          /\ fallbackDefinitions[currentWord].kind = "object"
       THEN clipboardWrite' =
              <<currentWord, " (", fallbackDefinitions[currentWord].reading,
                "): ", fallbackDefinitions[currentWord].meaning>>
       ELSE clipboardWrite' = NoText]_vars

\* the cached definition of U+732B was copied
C20_Witness ==
  /\ currentWord = <<29483>>
  /\ MapGet(fallbackDefinitions, <<29483>>) = Definition("r1", "m1")
  /\ clipboardWrite = << <<29483>>, " (", "r1", "): ", "m1" >>

(***************************************************************************)
(* More claims about the annotator (checked under SpecText)                *)
(***************************************************************************)
AsciiAlpha(c) == (65 <= c /\ c <= 90) \/ (97 <= c /\ c <= 122)

\* a tag spelled by characters of the text: '<', a letter (or '/' and a
\* letter), and a '>' further on; the tags of the annotator hold a piece of
\* its template after '<' instead
SourceTagAt(s, i) ==
  /\ s[i] = LT
  /\ i < Len(s)
  /\ \/ AsciiAlpha(s[i + 1])
     \/ s[i + 1] = 47 /\ i + 1 < Len(s) /\ AsciiAlpha(s[i + 2])
  /\ \E j \in (i + 1)..Len(s) : s[j] = GT

\* C21: the only tags in the markup makeWordsClickable returns are the span
\* tags and line breaks of the annotator: no characters of the source text
\* form a tag.
C21_OnlyAnnotatorTags ==
  tpc = "annotated" =>
    \A i \in 1..Len(clickableText) : ~SourceTagAt(clickableText, i)

\* how many maximal runs of the class in s are the word w
RunCount(s, w) ==
  Cardinality({i \in 1..Len(s) :
                 /\ InScript(s[i])
                 /\ (i = 1 \/ ~InScript(s[i - 1]))
                 /\ SubSeq(s, i, MatchEnd(s, i)) = w})

\* how many interactive spans of s carry the word w
SpansOf(s, w) ==
  Cardinality({i \in 1..Len(s) : IsSpanOpen(s, i) /\ DataWord(s, i) = w})

\* C22: every surface form the tokenizer found is the data-word of at least
\* one interactive span of the output, and the output holds at least one
\* span with that data-word for each maximal run of the text that is the
\* surface form.
C22_EveryOccurrenceWrapped ==
  tpc = "annotated" =>
    \A w \in Elements(wordsToMakeClickable) :
      /\ SpansOf(clickableText, w) >= 1
      /\ SpansOf(clickableText, w) >= RunCount(text, w)

(***************************************************************************)
(* More claims about the session (checked under Spec)                      *)
(***************************************************************************)
\* C23: whatever toggles and story displays came before, a clickable word of
\* the source view has exactly one click listener, so one click on it makes
\* one showWordPopup call; and no step, a click included, sends more than
\* one lookup request.
C23_OneListenerPerWord ==
  [][ /\ ClickableWords' # {} => clickListeners' = 1
      /\ Len(calls') <= Len(calls) + 1 ]_vars

\* two clicks on words, the second after the lookup of the first had
\* completed, have sent one request each
C23_Witness ==
  /\ ClickableWords # {}
  /\ clickListeners = 1
  /\ currentLanguage = "japanese"
  /\ Len(calls) = 2
  /\ calls[1].pc = "done"
  /\ calls[2].pc = "fetch"
  /\ calls[2].overlapped = {}

\* C24: every value stored in the definition cache is an object with a
\* reading and a meaning.
C24_CacheValuesWellFormed ==
  \A w \in DOMAIN fallbackDefinitions :
    /\ fallbackDefinitions[w].kind = "object"
    /\ fallbackDefinitions[w].reading # ""
    /\ fallbackDefinitions[w].meaning # ""

\* C25: when copy is activated while the popup is visible and shows a word,
\* the text handed to the clipboard, if any, is a text for that word.
C25_CopyMatchesPopup ==
  [][(ClickCopy /\ clipboardWrite' # NoText) => clipboardWrite'[1] = popupWord]_vars

\* C26 (checked under SpecGen): whenever a generateStory call waits for the
\* service, started by the button or by Ctrl+Enter, the loading indicator is
\* visible and the generate button is disabled.
C26_LoadingCoversInFlight ==
  Pending > 0 => (~loadingHidden /\ generateBtnDisabled)

\* C27: a click on a word with no cached definition while the credential
\* field is empty sends no lookup request and leaves the cache, the popup
\* (visibility, word, content) and the selected word as they were; it alerts.
C27_NoKeyClickChangesNothing ==
  [][\A w \in ClickableWords :
       ( /\ ClickWord(w)
         /\ ~Truthy(MapGet(fallbackDefinitions, w))
         /\ Trim(apiKeyInput) = "" )
         => /\ calls' = calls
            /\ fallbackDefinitions' = fallbackDefinitions
            /\ wordPopupHidden' = wordPopupHidden
            /\ popupWord' = popupWord
            /\ popupMeaning' = popupMeaning
            /\ currentWord' = currentWord
            /\ lastAlert' = "API key needed to look up word definitions"]_vars

\* the credential was cleared while the popup showed a definition, and a
\* click on the other word, which has no cached definition, was answered
\* with the notification: the popup still shows the first word
C27_Witness ==
  /\ lastAlert = "API key needed to look up word definitions"
  /\ Trim(apiKeyInput) = ""
  /\ ~wordPopupHidden
  /\ popupMeaning.kind = "definition"
  /\ currentWord = popupWord
  /\ Len(calls) = 1
====
